---------------------------- MODULE Spec2Model ----------------------------
(***************************************************************************)
(* Model of the request-routing engine of the privacy-preserving LLM       *)
(* gateway (server/backend): the session & endpoint manager with its       *)
(* counter-store records, the single-turn completion workflow, and the     *)
(* query router's temporal-mixing dispatch.                                *)
(*                                                                         *)
(* Two specifications share the module:                                    *)
(*   Spec     sessions, candidate lists, endpoint records and their TTLs   *)
(*   SpecMix  one temporal-mixing dispatch of the query router after       *)
(*            another, with its tasks, driver instances and shutdown       *)
(***************************************************************************)
EXTENDS Integers, Sequences, FiniteSets, TLC

(***************************************************************************)
(* Bounds of the model.                                                    *)
(***************************************************************************)
\* the clock runs from 0 to MaxTime ticks
MaxTime == 2
\* number of session ids uuid4 can hand out
MaxSessions == 1
\* largest number of decoy prompts of one dispatch
MaxDecoys == 2
\* decoy tasks of earlier requests still on the event loop
MaxBackground == 2
\* the TrackUsage calls made
MaxTrackCalls == 2
\* the keys created by ingestions after start-up
MaxIngested == 2

(***************************************************************************)
(* Program constants.                                                      *)
(***************************************************************************)
\* the TTL of 3600 s of session records, candidate lists and endpoint
\* records, in ticks of 1800 s
SessionTTL == 2
\* the TTL of 300 s of the endpoint record of a direct stateless query,
\* rounded up to one tick
StatelessTTL == 1
\* the TTL of 3600 s of key_usage_hour:<key_id> and of the session weight
\* records, in ticks
UsageHourTTL == 2
WeightTTL == 2
\* update_session_models asks the key server for two keys per model
SessionCountPerModel == 2
\* _route_with_auto_selection asks for one key per model
AutoCountPerModel == 1

Users == {123}
\* the key ids uuid4 hands out during an ingestion, in the order of creation
UuidKeys == <<"k4", "k5", "k6", "k7">>
Keys == {"k1", "k2", "k3"} \cup {UuidKeys[n] : n \in DOMAIN UuidKeys}
\* the provider/model names; no key was ever ingested for m3
Models == {"m1", "m2", "m3"}
Reqs == {"r1"}
\* the requests of the specification in which two requests run side by side
ConcurrentReqs == {"r1", "r2"}

\* the key pools keys:<provider>:<model> the key server starts with (the
\* ingestion of its initialize), each in the order in which SMEMBERS
\* enumerates it
KeyPool(m) ==
    IF m = "m1" THEN <<"k2", "k1">> ELSE IF m = "m2" THEN <<"k3">> ELSE <<>>

\* the secret stored for a key under llm/<provider>/<model>/<key_id>
SecretOf(k) == <<"secret", k>>

\* selected-models lists a client may send
ModelLists == {<<>>, <<"m1">>, <<"m1", "m2">>}
\* the model lists a direct (sessionless) request names
DirectModelLists == {<<>>, <<"m1">>}

(***************************************************************************)
(* Identifiers.  A session id is <<kind, a, b>>: <<"uuid", n, 0>> for the  *)
(* uuid4 of initialize_session, <<"temp", user, ts>> for the               *)
(* temp_<user>_<ts> id of _route_with_auto_selection.                      *)
(***************************************************************************)
UuidSessions == {<<"uuid", n, 0>> : n \in 1..MaxSessions}
NoSession == <<"none", 0, 0>>

\* session_id[:8]: a uuid keeps its first eight characters; of
\* temp_<user>_<ts> with a three-digit user id only temp_<user> is left
Salt(session_id) ==
    IF session_id[1] = "temp" THEN <<"temp", session_id[2], 0>> ELSE session_id

\* sha256(provider:model:key_id:timestamp:session_salt)[:length], the hash
\* taken as injective
generate_endpoint_id(model, key_id, session_id, ts) ==
    [model |-> model, key_id |-> key_id, ts |-> ts, salt |-> Salt(session_id)]

NoEndpoint == [model |-> "", key_id |-> "", ts |-> -1, salt |-> NoSession]

\* sha256(key_id:session_id:hour_bucket)[:24]
generate_session_specific_api_key_hash(key_id, session_id) ==
    [key_id |-> key_id, session_id |-> session_id]

NoHash == [key_id |-> "", session_id |-> NoSession]

VARIABLES
    now,                \* the clock, in ticks
    session_state,      \* session_state:<id>      -> [val, exp]
    session_endpoints,  \* session_endpoints:<id>  -> [val, exp]
    endpoint,           \* endpoint:<id>           -> [val, exp]
    user_sessions,      \* user_sessions:<user>    -> set of session ids
    key_usage_hour,     \* key_usage_hour:<key_id>, the key server's counter
    key_usage_ttl,      \* the expiry time of key_usage_hour:<key_id>, -1: no TTL
    key_usage_total,    \* key_usage_total:<key_id>
    key_pool,           \* keys:<provider>:<model>, in SMEMBERS order
    session_key_weight, \* session_key_weight:<session>:<key_id> -> [val, exp]
    track,              \* the TrackUsage calls in progress
    reload,             \* the ReloadKeys call in progress, or the last one
    ingested,           \* how many uuid4 key ids have been handed out
    tracked,            \* per key, the tokens of the TrackUsage calls that returned
    issued,             \* how many uuid4 session ids have been handed out
    req,                \* the /generate requests in progress
    mix,                \* the temporal-mixing dispatch of the router
    shutdown            \* the lifespan context has run its shutdown part

keyVars == <<key_usage_ttl, key_usage_total, key_pool, session_key_weight,
             track, reload, ingested, tracked>>

vars == <<now, session_state, session_endpoints, endpoint, user_sessions,
          key_usage_hour, issued, req, mix, shutdown, keyVars>>

sessionVars == <<now, session_state, session_endpoints, endpoint,
                 user_sessions, key_usage_hour, keyVars, issued, req>>

(***************************************************************************)
(* The counter store: SETEX, DEL and key expiry.                           *)
(***************************************************************************)
Setex(store, k, ttl, v) ==
    [x \in DOMAIN store \cup {k} |->
        IF x = k THEN [val |-> v, exp |-> now + ttl] ELSE store[x]]

Delete(store, ks) == [x \in DOMAIN store \ ks |-> store[x]]

Expire(store, t) == [x \in {y \in DOMAIN store : store[y].exp > t} |-> store[x]]

Range(seq) == {seq[i] : i \in 1..Len(seq)}

(***************************************************************************)
(* The key server: weighted selection of keys for a session.               *)
(***************************************************************************)
\* the stores as one SelectKeys call finds them: the keys the secret store
\* holds a secret for, whether its reads succeed, whether SMEMBERS succeeds,
\* whether the counter reads succeed
NoFaults == [stored |-> Keys, vault_ok |-> TRUE, pool_ok |-> TRUE, stats_ok |-> TRUE]

\* get_all_active_keys: SMEMBERS keys:<provider>:<model>; [] on any error
get_all_active_keys(model, faults) ==
    IF faults.pool_ok THEN key_pool[model] ELSE <<>>

\* get_key_usage_stats, tokens_hour: the counter, 0 when it is missing and
\* 0 on any error
get_key_usage_stats(key_id, faults) ==
    IF faults.stats_ok THEN key_usage_hour[key_id] ELSE 0

\* a weight that grows with the usage
KeyWeightHeavierFirst(tokens_hour) ==
    IF tokens_hour = 0 THEN 5
    ELSE IF tokens_hour < 1000 THEN 20
    ELSE IF tokens_hour < 5000 THEN 50
    ELSE 100

\* lower usage, higher weight
KeyWeight(tokens_hour) ==
    IF tokens_hour = 0 THEN 100
    ELSE IF tokens_hour < 1000 THEN 50
    ELSE IF tokens_hour < 5000 THEN 20
    ELSE 5

\* the tokens_hour value the selection reads for every key
UsageStats(faults) == [k \in Keys |-> get_key_usage_stats(k, faults)]

\* the sort key (-weight, tokens_hour) of weighted_keys.sort, on the
\* tokens_hour values that were read
SortsBeforeOn(tokens_hour, a, b) ==
    \/ KeyWeight(tokens_hour[a]) > KeyWeight(tokens_hour[b])
    \/ /\ KeyWeight(tokens_hour[a]) = KeyWeight(tokens_hour[b])
       /\ tokens_hour[a] < tokens_hour[b]

\* list.sort is stable: position of e[i] is the number of elements that sort
\* before it, plus the earlier elements that tie with it
SortedPositionOn(tokens_hour, e, i) ==
    1 + Cardinality({j \in DOMAIN e :
            \/ SortsBeforeOn(tokens_hour, e[j], e[i])
            \/ (j < i /\ ~SortsBeforeOn(tokens_hour, e[i], e[j]))})

\* weighted_keys after the sort, cut to the first count entries
SelectionOn(tokens_hour, available_keys, count) ==
    LET sorted == [p \in DOMAIN available_keys |->
                     available_keys[CHOOSE i \in DOMAIN available_keys :
                                        SortedPositionOn(tokens_hour, available_keys, i) = p]]
    IN  SubSeq(sorted, 1, count)

SortsBefore(a, b, faults) == SortsBeforeOn(UsageStats(faults), a, b)

SortedPosition(e, i, faults) == SortedPositionOn(UsageStats(faults), e, i)

_intelligent_key_selection(available_keys, count, faults) ==
    SelectionOn(UsageStats(faults), available_keys, count)

Min(a, b) == IF a < b THEN a ELSE b

\* the keys _intelligent_key_selection picks for one model; each gets its
\* session weight record
SelectedForModel(model, count, faults) ==
    LET available_keys == get_all_active_keys(model, faults)
    IN  _intelligent_key_selection(available_keys,
                                   Min(count, Len(available_keys)), faults)

\* _get_api_key_from_vault returns None for a missing secret and on any
\* error: the selected key is left out of the reply
WithSecret(selected, faults) ==
    SelectSeq(selected, LAMBDA key_id : faults.vault_ok /\ key_id \in faults.stored)

\* the key_info records the key server returns for one model
KeysForModel(model, count, faults) ==
    LET selected == WithSecret(SelectedForModel(model, count, faults), faults)
    IN  [i \in DOMAIN selected |->
            [key_id |-> selected[i], model |-> model,
             api_key |-> SecretOf(selected[i]),
             tokens_hour |-> get_key_usage_stats(selected[i], faults)]]

\* select_keys_for_session: the model strings in request order, a repeated
\* one handled again; a model whose pool is empty contributes nothing
RECURSIVE select_keys_for_session(_, _, _)
select_keys_for_session(models, count, faults) ==
    IF models = <<>> THEN <<>>
    ELSE KeysForModel(Head(models), count, faults)
            \o select_keys_for_session(Tail(models), count, faults)

(***************************************************************************)
(* Session manager.                                                        *)
(***************************************************************************)
\* get_session: the stored record, or None
HasSession(store, session_id) == session_id \in DOMAIN store

\* get_session_endpoints: the stored list, [] when the key is missing
get_session_endpoints(store, session_id) ==
    IF session_id \in DOMAIN store THEN store[session_id].val ELSE <<>>

EmptySessionState(session_id, user_id) ==
    [session_id |-> session_id, user_id |-> user_id, selected_models |-> <<>>,
     current_model |-> "", endpoint_id |-> NoEndpoint, api_key_hash |-> NoHash]

\* the binding fields of a session record, cleared
Unbound(state) ==
    [state EXCEPT !.current_model = "", !.endpoint_id = NoEndpoint,
                  !.api_key_hash = NoHash]

\* _store_session_state: SETEX session_state:<id> 3600
_store_session_state(store, state) ==
    Setex(store, state.session_id, SessionTTL, state)

\* the endpoint record written for one selected key
EndpointData(session_id, key_info) ==
    [id |-> generate_endpoint_id(key_info.model, key_info.key_id, session_id, now),
     model |-> key_info.model,
     api_key |-> key_info.api_key,
     session_id |-> session_id]

\* the list entry (without the secret) written for one selected key
EndpointListEntry(session_id, key_info) ==
    [id |-> generate_endpoint_id(key_info.model, key_info.key_id, session_id, now),
     models_accessible |-> key_info.model,
     api_key_hash |-> generate_session_specific_api_key_hash(key_info.key_id, session_id)]

\* _store_session_endpoints_with_keys, the endpoint:<id> part: one SETEX per
\* selected key; nothing that was stored before is deleted
RECURSIVE StoreEndpointRecords(_, _, _)
StoreEndpointRecords(store, session_id, selected_keys) ==
    IF selected_keys = <<>> THEN store
    ELSE StoreEndpointRecords(
            Setex(store, EndpointData(session_id, Head(selected_keys)).id,
                  SessionTTL, EndpointData(session_id, Head(selected_keys))),
            session_id, Tail(selected_keys))

\* _store_session_endpoints_with_keys, the session_endpoints:<id> part
StoreEndpointList(store, session_id, selected_keys) ==
    Setex(store, session_id, SessionTTL,
          [i \in DOMAIN selected_keys |-> EndpointListEntry(session_id, selected_keys[i])])

\* update_session_models up to the key-server call: the record with the new
\* model list, the binding cleared when its model is no longer selected
WithNewModels(state, new_selected_models) ==
    LET s1 == [state EXCEPT !.selected_models = new_selected_models]
    IN  IF state.current_model # "" /\ state.current_model \notin Range(new_selected_models)
        THEN Unbound(s1) ELSE s1

AfterSelectionKept(state, selected_keys) == state

\* update_session_models after the key-server call: no keys, no binding
AfterSelection(state, selected_keys) ==
    IF selected_keys = <<>> THEN Unbound(state) ELSE state

\* the first component of what update_session_models returns
needs_disconnection(state, new_selected_models, selected_keys) ==
    \/ state.current_model # "" /\ state.current_model \notin Range(new_selected_models)
    \/ selected_keys = <<>>

\* the reply of key_client.select_keys_for_session; None (RPC error) is
\* replaced by the empty list.  The weight records the key server writes
\* while it answers are read by nothing; they are part of its own handler,
\* SelectKeysForSession
KeyClientReply(models, count, rpc_ok) ==
    IF rpc_ok THEN select_keys_for_session(models, count, NoFaults) ELSE <<>>

ChoicesIgnoringId(session_endpoints_list, endpoint_id) ==
    Range(session_endpoints_list)

\* choose_session_endpoint on the list it read: the entries it may bind
Choices(session_endpoints_list, endpoint_id) ==
    IF endpoint_id # NoEndpoint
    THEN {e \in Range(session_endpoints_list) : e.id = endpoint_id}
    ELSE Range(session_endpoints_list)

Bound(state, endpoint_data) ==
    [state EXCEPT !.current_model = endpoint_data.models_accessible,
                  !.endpoint_id = endpoint_data.id,
                  !.api_key_hash = endpoint_data.api_key_hash]

IdleReq == [pc |-> "idle", session_id |-> NoSession, endpoint_id |-> NoEndpoint,
            stateless |-> FALSE, snapshot |-> EmptySessionState(NoSession, 0),
            result |-> "", dispatched |-> FALSE, after_reload |-> FALSE]

initialize_session(user_id) ==
    /\ issued < MaxSessions
    /\ LET session_id == <<"uuid", issued + 1, 0>>
       IN  /\ session_state' = _store_session_state(session_state,
                                    EmptySessionState(session_id, user_id))
           /\ user_sessions' = [user_sessions EXCEPT ![user_id] = @ \cup {session_id}]
    /\ issued' = issued + 1
    /\ UNCHANGED <<now, session_endpoints, endpoint, key_usage_hour, keyVars, req, mix, shutdown>>

update_session_models(session_id, new_selected_models, rpc_ok) ==
    /\ HasSession(session_state, session_id)
    /\ LET state == WithNewModels(session_state[session_id].val, new_selected_models)
           selected_keys == KeyClientReply(new_selected_models, SessionCountPerModel, rpc_ok)
       IN  /\ endpoint' = StoreEndpointRecords(endpoint, session_id, selected_keys)
           /\ session_endpoints' = StoreEndpointList(session_endpoints, session_id, selected_keys)
           /\ session_state' = _store_session_state(session_state,
                                    AfterSelection(state, selected_keys))
    /\ UNCHANGED <<now, user_sessions, key_usage_hour, keyVars, issued, req, mix, shutdown>>

choose_session_endpoint(session_id, endpoint_id) ==
    /\ HasSession(session_state, session_id)
    /\ \E endpoint_data \in Choices(get_session_endpoints(session_endpoints, session_id),
                                    endpoint_id) :
          session_state' = _store_session_state(session_state,
                                Bound(session_state[session_id].val, endpoint_data))
    /\ UNCHANGED <<now, session_endpoints, endpoint, user_sessions, key_usage_hour, keyVars,
                   issued, req, mix, shutdown>>

end_session(session_id) ==
    /\ session_id \in DOMAIN session_state \cup DOMAIN session_endpoints
    /\ session_state' = Delete(session_state, {session_id})
    /\ session_endpoints' = Delete(session_endpoints, {session_id})
    /\ user_sessions' =
          IF HasSession(session_state, session_id)
          THEN [user_sessions EXCEPT ![session_state[session_id].val.user_id] =
                                            @ \ {session_id}]
          ELSE user_sessions
    /\ UNCHANGED <<now, endpoint, key_usage_hour, keyVars, issued, req, mix, shutdown>>

\* the clock advances by one tick and the store drops the keys whose TTL is over
Tick ==
    /\ now < MaxTime
    /\ now' = now + 1
    /\ session_state' = Expire(session_state, now + 1)
    /\ session_endpoints' = Expire(session_endpoints, now + 1)
    /\ endpoint' = Expire(endpoint, now + 1)
    /\ session_key_weight' = Expire(session_key_weight, now + 1)
    /\ key_usage_hour' = [k \in Keys |->
            IF key_usage_ttl[k] \in 0..(now + 1) THEN 0 ELSE key_usage_hour[k]]
    /\ key_usage_ttl' = [k \in Keys |->
            IF key_usage_ttl[k] \in 0..(now + 1) THEN -1 ELSE key_usage_ttl[k]]
    /\ UNCHANGED <<user_sessions, key_usage_total, key_pool, track, reload, ingested,
                   tracked, issued, req, mix, shutdown>>

(***************************************************************************)
(* Query router, stateless auto-selection (direct API).                    *)
(***************************************************************************)
\* _route_with_auto_selection: a key is selected for the temporary session
\* temp_<user>_<ts>, its endpoint record is stored with the TTL of the
\* request and the query is dispatched; the record stays until its TTL ends
_route_with_auto_selection(user_id, models, rpc_ok) ==
    /\ models # <<>>
    /\ LET temp_session_id == <<"temp", user_id, now>>
           selected_keys == KeyClientReply(models, AutoCountPerModel, rpc_ok)
       IN  \E i \in DOMAIN selected_keys :
              LET chosen_key == selected_keys[i]
                  endpoint_id == generate_endpoint_id(chosen_key.model, chosen_key.key_id,
                                                      temp_session_id, now)
              IN  endpoint' = Setex(endpoint, endpoint_id, StatelessTTL,
                                    [id |-> endpoint_id, model |-> chosen_key.model,
                                     api_key |-> chosen_key.api_key,
                                     created_at |-> temp_session_id])
    /\ UNCHANGED <<now, session_state, session_endpoints, user_sessions,
                   key_usage_hour, keyVars, issued, req, mix, shutdown>>

(***************************************************************************)
(* The /generate handler of the web API and single-turn completion, one    *)
(* action per stretch between two awaited store or provider calls.         *)
(***************************************************************************)
\* _validate_session and the check for a connected endpoint; after_reload
\* notes whether the request arrived after a ReloadKeys had returned
generate_validate(r, session_id, stateless) ==
    /\ req[r].pc = "idle"
    /\ req' = [req EXCEPT ![r] =
          IF ~HasSession(session_state, session_id)
          THEN [IdleReq EXCEPT !.pc = "failed", !.result = "session_not_live"]
          ELSE IF session_state[session_id].val.endpoint_id = NoEndpoint
          THEN [IdleReq EXCEPT !.pc = "failed", !.result = "no_endpoint_connected"]
          ELSE [IdleReq EXCEPT !.pc = "validated", !.session_id = session_id,
                               !.stateless = stateless,
                               !.after_reload = (reload.pc = "returned"),
                               !.endpoint_id = session_state[session_id].val.endpoint_id]]
    /\ UNCHANGED <<now, session_state, session_endpoints, endpoint, user_sessions,
                   key_usage_hour, keyVars, issued, mix, shutdown>>

\* _route_with_endpoint under route_query: EndpointExpiredError when the
\* record is missing, raised before an instance is created and re-raised by
\* both except clauses; any other exception (here: the driver call raised)
\* becomes the failure result of route_query
RouteExpiryAsFailure(store, endpoint_id, driver_ok) ==
    IF endpoint_id \notin DOMAIN store \/ ~driver_ok
    THEN [error |-> "route_failed", dispatched |-> endpoint_id \in DOMAIN store]
    ELSE [error |-> "", dispatched |-> TRUE]
_route_with_endpoint(store, endpoint_id, driver_ok) ==
    IF endpoint_id \notin DOMAIN store
    THEN [error |-> "endpoint_expired", dispatched |-> FALSE]
    ELSE IF ~driver_ok
    THEN [error |-> "route_failed", dispatched |-> TRUE]
    ELSE [error |-> "", dispatched |-> TRUE]

\* route_query with the endpoint id of the session
generate_route(r, driver_ok) ==
    /\ req[r].pc = "validated"
    /\ LET routed == _route_with_endpoint(endpoint, req[r].endpoint_id, driver_ok)
       IN  req' = [req EXCEPT ![r] =
              IF routed.error # ""
              THEN [IdleReq EXCEPT !.pc = "failed", !.result = routed.error,
                                   !.dispatched = routed.dispatched]
              ELSE IF req[r].stateless
              THEN [req[r] EXCEPT !.pc = "routed", !.dispatched = routed.dispatched]
              ELSE [IdleReq EXCEPT !.pc = "answered",
                                   !.dispatched = routed.dispatched]]
    /\ UNCHANGED <<now, session_state, session_endpoints, endpoint, user_sessions,
                   key_usage_hour, keyVars, issued, mix, shutdown>>

\* complete_single_turn, get_session before the clean-up
complete_begin(r) ==
    /\ req[r].pc = "routed"
    /\ req' = [req EXCEPT ![r] =
          IF ~HasSession(session_state, req[r].session_id)
          THEN [IdleReq EXCEPT !.pc = "answered", !.result = "completion_failed"]
          ELSE [req[r] EXCEPT !.pc = "completing",
                              !.snapshot = session_state[req[r].session_id].val]]
    /\ UNCHANGED <<now, session_state, session_endpoints, endpoint, user_sessions,
                   key_usage_hour, keyVars, issued, mix, shutdown>>

\* _invalidate_session_endpoints: the records named by the current
\* candidate list are deleted, then the list
InvalidatedEndpoints(session_id) ==
    Delete(endpoint,
           {e.id : e \in Range(get_session_endpoints(session_endpoints, session_id))})

\* complete_single_turn, steps 1 and 2: _invalidate_session_endpoints and
\* _clear_session_state (which stores the record read by complete_begin)
complete_invalidate(r) ==
    /\ req[r].pc = "completing"
    /\ endpoint' = InvalidatedEndpoints(req[r].session_id)
    /\ session_endpoints' = Delete(session_endpoints, {req[r].session_id})
    /\ session_state' = _store_session_state(session_state, Unbound(req[r].snapshot))
    /\ req' = [req EXCEPT ![r].pc =
                  IF req[r].snapshot.selected_models = <<>> THEN "completed" ELSE "cleared"]
    /\ UNCHANGED <<now, user_sessions, key_usage_hour, keyVars, issued, mix, shutdown>>

\* _auto_select_endpoint: choose_session_endpoint with a random entry of the
\* regenerated list, nothing when the list is empty; the session records it
\* may leave
AutoSelectSkipped(state, endpoints) == {state}
_auto_select_endpoint(state, endpoints) ==
    IF endpoints = <<>> THEN {state}
    ELSE {Bound(state, endpoint_data) : endpoint_data \in Range(endpoints)}

\* complete_single_turn, steps 3 and 4: _regenerate_endpoints
\* (update_session_models with the same models) and _auto_select_endpoint
complete_regenerate(r, rpc_ok) ==
    /\ req[r].pc = "cleared"
    /\ LET session_id == req[r].session_id
           models == req[r].snapshot.selected_models
           selected_keys == KeyClientReply(models, SessionCountPerModel, rpc_ok)
       IN  IF ~HasSession(session_state, session_id)
           THEN /\ req' = [req EXCEPT ![r] = [IdleReq EXCEPT !.pc = "answered",
                                                             !.result = "completion_failed"]]
                /\ UNCHANGED <<session_state, session_endpoints, endpoint>>
           ELSE LET state == AfterSelection(
                                WithNewModels(session_state[session_id].val, models),
                                selected_keys)
                    new_list == StoreEndpointList(session_endpoints, session_id, selected_keys)
                IN  /\ endpoint' = StoreEndpointRecords(endpoint, session_id, selected_keys)
                    /\ session_endpoints' = new_list
                    /\ \E chosen \in _auto_select_endpoint(state, new_list[session_id].val) :
                          session_state' = _store_session_state(session_state, chosen)
                    /\ req' = [req EXCEPT ![r].pc = "completed"]
    /\ UNCHANGED <<now, user_sessions, key_usage_hour, keyVars, issued, mix, shutdown>>

\* the handler returns its response or its error
generate_respond(r) ==
    /\ req[r].pc \in {"completed", "answered", "failed"}
    /\ req' = [req EXCEPT ![r] = IdleReq]
    /\ UNCHANGED <<now, session_state, session_endpoints, endpoint, user_sessions,
                   key_usage_hour, keyVars, issued, mix, shutdown>>

(***************************************************************************)
(* Query router, temporal mixing.  One dispatch is in flight at a time;    *)
(* positions are 1..N+1 (the code counts from 0), prompts are named by     *)
(* their index in all_prompts: 0 is the real prompt, 1..N are the decoys.  *)
(***************************************************************************)
\* the keys whose endpoint a mixed dispatch may be bound to
MixKeys == {"k1", "k3"}
ModelOf(k) == IF k = "k3" THEN "m2" ELSE "m1"

NoInstance == [provider |-> "", model_tag |-> "", api_key |-> <<>>, uuid |-> -1]
NoRequest == [uuid |-> -1, prompt |-> -1, method |-> ""]
NoValue == [type |-> "none"]

\* EndpointFactory.create_endpoint: a new driver instance (BaseProvider
\* gives each its own uuid), None when the constructor raises
create_endpoint(provider, model_tag, api_key, uuid, constructed) ==
    IF constructed
    THEN [provider |-> provider, model_tag |-> model_tag, api_key |-> api_key,
          uuid |-> uuid]
    ELSE NoInstance

\* the instance the loop of _send_with_temporal_mixing hands to position i
QueryEndpointShared(endpoint_instance, i, constructed) == endpoint_instance
QueryEndpoint(endpoint_instance, i, constructed) ==
    create_endpoint(endpoint_instance.provider, endpoint_instance.model_tag,
                    endpoint_instance.api_key, i, constructed)

\* every driver class defines both methods of BaseProvider
DriverMethods == {"send_message", "send_message_non_streaming"}

\* the driver method _send_regular_message calls
RealMethod(streaming) ==
    IF streaming THEN "send_message"
    ELSE IF "send_message_non_streaming" \in DriverMethods
         THEN "send_message_non_streaming" ELSE "send_message"

\* the driver method _execute_decoy_query calls
DecoyMethodFixed(streaming) == "send_message_non_streaming"
DecoyMethod(streaming) ==
    IF streaming THEN "send_message"
    ELSE IF "send_message_non_streaming" \in DriverMethods
         THEN "send_message_non_streaming" ELSE "send_message"

\* how the task of _send_regular_message ends: the except clause re-raises
RealTaskEndSwallowed(outcome) == "done"
RealTaskEnd(outcome) == IF outcome = "raise" THEN "raised" ELSE "done"

\* how the task of _execute_decoy_query ends: the except clause logs and
\* falls through
DecoyTaskEnd(outcome) == "done"

\* the value of a finished _send_regular_message
RealResult(streaming, prompt) ==
    IF streaming
    THEN [type |-> "streaming", stream |-> <<"stream", prompt>>, content |-> <<>>]
    ELSE [type |-> "complete", content |-> <<"reply", prompt>>]

\* the draws of one secure_shuffle of len items: for the loop index i from
\* len - 1 down to 1 the value of secrets.randbelow(i + 1)
Draws(len) ==
    {d \in [1..(len - 1) -> 0..(len - 1)] : \A i \in 1..(len - 1) : d[i] <= i}

\* items[i], items[j] = items[j], items[i] for list indices counted from 0
Swapped(items, i, j) ==
    [items EXCEPT ![i + 1] = items[j + 1], ![j + 1] = items[i + 1]]

RECURSIVE ShuffledFrom(_, _, _)
ShuffledFrom(items, draws, i) ==
    IF i < 1 THEN items
    ELSE ShuffledFrom(Swapped(items, i, draws[i]), draws, i - 1)

\* a shuffle that never leaves the item of the loop index in its place
ShuffleDrawBelowIndex(items, draws) ==
    LET below == [i \in DOMAIN draws |-> draws[i] % i]
    IN  ShuffledFrom(items, below, Len(items) - 1)

\* secure_shuffle: the Fisher-Yates loop on the given draws
secure_shuffle(items, draws) ==
    ShuffledFrom(items, draws, Len(items) - 1)

\* list(range(n + 1))
IndexRange(n) == [i \in 1..(n + 1) |-> i - 1]

\* secure_shuffle(list(range(n + 1))): the orders of 0..n it can produce
Shuffles(n) ==
    {secure_shuffle(IndexRange(n), d) : d \in Draws(n + 1)}

\* real_task_index: the position whose shuffled index is 0
RealTaskIndexFirst(query_indices) == 1
RealTaskIndex(query_indices) ==
    CHOOSE i \in DOMAIN query_indices : query_indices[i] = 0

\* the task created for position i; its first step calls the driver method,
\* which on a None instance raises AttributeError inside the try block
NewTask(endpoint_instance, streaming, query_indices, i, constructed) ==
    LET query_endpoint == QueryEndpoint(endpoint_instance, i, constructed)
        prompt == query_indices[i]
        is_real == (prompt = 0)
        method == IF is_real THEN RealMethod(streaming) ELSE DecoyMethod(streaming)
    IN  IF query_endpoint = NoInstance
        THEN [prompt |-> prompt, instance |-> query_endpoint, request |-> NoRequest,
              error |-> TRUE, value |-> NoValue,
              state |-> IF is_real THEN RealTaskEnd("raise") ELSE DecoyTaskEnd("raise")]
        ELSE [prompt |-> prompt, instance |-> query_endpoint,
              request |-> [uuid |-> query_endpoint.uuid, prompt |-> prompt,
                           method |-> method],
              error |-> FALSE, value |-> NoValue, state |-> "pending"]

\* real_result = await query_tasks[real_task_index]: what the dispatcher
\* is resumed with
AwaitOutcomeAll(query_tasks, real_task_index) ==
    IF \E i \in DOMAIN query_tasks : query_tasks[i].error THEN "raised"
    ELSE IF \A i \in DOMAIN query_tasks : query_tasks[i].state = "done" THEN "done"
    ELSE "pending"
AwaitOutcomeGathered(query_tasks, real_task_index) ==
    IF \E i \in DOMAIN query_tasks : query_tasks[i].state = "pending" THEN "pending"
    ELSE query_tasks[real_task_index].state
AwaitOutcome(query_tasks, real_task_index) == query_tasks[real_task_index].state

\* the tasks a cancellation of the dispatcher reaches: the awaited one
CancelTargetsAll(query_tasks, real_task_index) == DOMAIN query_tasks
CancelTargets(query_tasks, real_task_index) == {real_task_index}

\* {**real_result, "temporal_mixing": {...}}
MixResult(real_result, total_queries) ==
    [f \in DOMAIN real_result \cup {"temporal_mixing"} |->
        IF f = "temporal_mixing"
        THEN [active |-> TRUE, total_queries |-> total_queries]
        ELSE real_result[f]]

NoResult == [success |-> FALSE, error |-> "", response |-> NoValue]

MixIdle ==
    [pc |-> "idle", decoy |-> FALSE, is_stateless |-> FALSE, decoy_prompts |-> 0,
     decoy_count |-> 0, streaming |-> FALSE,
     endpoint_instance |-> NoInstance, query_indices |-> <<>>, query_tasks |-> <<>>,
     background_decoys |-> {}, result |-> NoResult, older |-> 0]

PendingDecoys(m) ==
    {i \in DOMAIN m.query_tasks :
        m.query_tasks[i].prompt # 0 /\ m.query_tasks[i].state = "pending"}

\* DecoyService.should_generate_decoy: never for a stateful query, otherwise
\* the placeholder policy approves
should_generate_decoy(is_stateless) == is_stateless

\* PrivacyProcessor.should_generate_decoys: the request must ask for decoys
\* and be stateless before the decoy service is consulted
ShouldGenerateWhenRequested(decoy_requested, is_stateless) == decoy_requested
should_generate_decoys(decoy_requested, is_stateless) ==
    IF ~(decoy_requested /\ is_stateless) THEN FALSE
    ELSE should_generate_decoy(TRUE)

\* _process_query_core up to route_query: decoy_prompts stays None (here 0
\* prompts) unless the request asks for decoys and the gate approves; then
\* generate_decoy_queries returns count prompts
_process_query_core(decoy, is_stateless, count) ==
    /\ ~shutdown
    /\ mix.pc = "idle"
    /\ mix' = [mix EXCEPT
            !.pc = "processed", !.decoy = decoy, !.is_stateless = is_stateless,
            !.decoy_prompts =
                IF decoy /\ should_generate_decoys(TRUE, is_stateless)
                THEN count ELSE 0]
    /\ UNCHANGED <<sessionVars, shutdown>>

\* the task-like record of the one request of a regular send, on the
\* instance handed to _send_message
RegularSend(endpoint_instance, streaming) ==
    [prompt |-> 0, instance |-> endpoint_instance,
     request |-> [uuid |-> endpoint_instance.uuid, prompt |-> 0,
                  method |-> RealMethod(streaming)],
     error |-> FALSE, value |-> NoValue, state |-> "pending"]

\* _send_message without decoy prompts: _send_regular_message on the
\* endpoint instance itself, up to the await of the driver call
_send_message(key_id, streaming) ==
    /\ ~shutdown
    /\ mix.pc = "processed"
    /\ mix.decoy_prompts = 0
    /\ LET endpoint_instance == create_endpoint("provider", ModelOf(key_id),
                                                SecretOf(key_id), 0, TRUE)
       IN  mix' = [mix EXCEPT
                !.pc = "awaiting", !.decoy_count = 0, !.streaming = streaming,
                !.endpoint_instance = endpoint_instance,
                !.query_indices = <<0>>,
                !.query_tasks = <<RegularSend(endpoint_instance, streaming)>>]
    /\ UNCHANGED <<sessionVars, shutdown>>

\* _send_message with decoy prompts calls _send_with_temporal_mixing.
\* _send_with_temporal_mixing up to its await: shuffle, one instance and one
\* task per position; the tasks are ahead of everything else in the ready
\* queue of the event loop, so their first steps have run before the
\* dispatcher can be resumed or cancelled
_send_with_temporal_mixing(key_id, decoy_count, streaming, query_indices, constructed) ==
    /\ ~shutdown
    /\ mix.pc = "processed"
    /\ mix.decoy_prompts > 0
    /\ decoy_count = mix.decoy_prompts
    /\ LET endpoint_instance == create_endpoint("provider", ModelOf(key_id),
                                                SecretOf(key_id), 0, TRUE)
       IN  mix' = [mix EXCEPT
                !.pc = "awaiting", !.decoy_count = decoy_count,
                !.streaming = streaming, !.endpoint_instance = endpoint_instance,
                !.query_indices = query_indices,
                !.query_tasks = [i \in DOMAIN query_indices |->
                    NewTask(endpoint_instance, streaming, query_indices, i,
                            constructed[i])]]
    /\ UNCHANGED <<sessionVars, shutdown>>

\* the request of the real task ends
_send_regular_message(outcome) ==
    /\ ~shutdown
    /\ mix.pc \notin {"idle", "processed"}
    /\ LET i == RealTaskIndex(mix.query_indices)
       IN  /\ mix.query_tasks[i].state = "pending"
           /\ mix' = [mix EXCEPT
                !.query_tasks[i].state = RealTaskEnd(outcome),
                !.query_tasks[i].error = (outcome = "raise"),
                !.query_tasks[i].value =
                    IF outcome = "raise" THEN NoValue
                    ELSE RealResult(mix.streaming, mix.query_tasks[i].prompt)]
    /\ UNCHANGED <<sessionVars, shutdown>>

\* the request of a decoy task ends; its done-callback, if registered,
\* discards it from the tracked set
_execute_decoy_query(i, outcome) ==
    /\ ~shutdown
    /\ i \in PendingDecoys(mix)
    /\ mix' = [mix EXCEPT
            !.query_tasks[i].state = DecoyTaskEnd(outcome),
            !.query_tasks[i].error = (outcome = "raise"),
            !.background_decoys = @ \ {i}]
    /\ UNCHANGED <<sessionVars, shutdown>>

\* the dispatcher is resumed with the value of the real task: that value is
\* the result of a regular send; after temporal mixing the decoys
\* are registered in _background_decoys (the done-callback of one that has
\* already ended discards it at once) and the result is returned through
\* _route_with_endpoint and route_query
route_query_return ==
    /\ ~shutdown
    /\ mix.pc = "awaiting"
    /\ LET real_task_index == RealTaskIndex(mix.query_indices)
       IN  /\ AwaitOutcome(mix.query_tasks, real_task_index) = "done"
           /\ mix' = [mix EXCEPT
                !.pc = "returned",
                !.background_decoys =
                    {i \in PendingDecoys(mix) : i # real_task_index},
                !.result = [success |-> TRUE, error |-> "",
                            response |->
                                IF mix.decoy_prompts > 0
                                THEN MixResult(mix.query_tasks[real_task_index].value,
                                               mix.decoy_count + 1)
                                ELSE mix.query_tasks[real_task_index].value]]
    /\ UNCHANGED <<sessionVars, shutdown>>

\* the dispatcher is resumed with the exception of the real task; it leaves
\* _send_with_temporal_mixing before the decoys are registered, and
\* route_query turns it into a failure reply
route_query_error ==
    /\ ~shutdown
    /\ mix.pc = "awaiting"
    /\ AwaitOutcome(mix.query_tasks, RealTaskIndex(mix.query_indices)) = "raised"
    /\ mix' = [mix EXCEPT
            !.pc = "failed",
            !.result = [success |-> FALSE, error |-> "driver_error",
                        response |-> NoValue]]
    /\ UNCHANGED <<sessionVars, shutdown>>

\* the request is cancelled while the dispatcher waits for the real task:
\* the cancellation is passed on to the awaited task, CancelledError is not
\* an Exception and leaves route_query
client_cancel ==
    /\ ~shutdown
    /\ mix.pc = "awaiting"
    /\ LET targets == CancelTargets(mix.query_tasks, RealTaskIndex(mix.query_indices))
       IN  mix' = [mix EXCEPT
                !.pc = "cancelled",
                !.query_tasks = [i \in DOMAIN @ |->
                    IF i \in targets /\ @[i].state = "pending"
                    THEN [@[i] EXCEPT !.state = "cancelled"] ELSE @[i]]]
    /\ UNCHANGED <<sessionVars, shutdown>>

\* the request is over and the router that get_query_router built for it is
\* dropped; decoy tasks still pending stay on the event loop
get_query_router ==
    /\ ~shutdown
    /\ mix.pc \in {"returned", "failed", "cancelled"}
    /\ mix.older + Cardinality(PendingDecoys(mix)) <= MaxBackground
    /\ mix' = [MixIdle EXCEPT !.older = mix.older + Cardinality(PendingDecoys(mix))]
    /\ UNCHANGED <<sessionVars, shutdown>>

\* a decoy task of an earlier request ends
older_decoy_done ==
    /\ ~shutdown
    /\ mix.older > 0
    /\ mix' = [mix EXCEPT !.older = @ - 1]
    /\ UNCHANGED <<sessionVars, shutdown>>

\* cleanup_background_tasks of a router: the tracked tasks that are not
\* done are cancelled and the set is cleared.  Only QueryRouter.close calls
\* it, and nothing calls close.
cleanup_background_tasks(m) ==
    [m EXCEPT
        !.query_tasks = [i \in DOMAIN @ |->
            IF i \in m.background_decoys /\ @[i].state = "pending"
            THEN [@[i] EXCEPT !.state = "cancelled"] ELSE @[i]],
        !.background_decoys = {}]

\* lifespan, after the yield: the initializer and the connection manager
\* are closed; no router is reached from here
lifespan ==
    /\ ~shutdown
    /\ shutdown' = TRUE
    /\ UNCHANGED <<sessionVars, mix>>

(***************************************************************************)
(* The key server's handlers.  Keys are selected in one step; TrackUsage   *)
(* and ReloadKeys take one step per store call that changes a counter or   *)
(* a pool, and other calls run between these steps.                        *)
(***************************************************************************)
backendVars == <<now, session_state, session_endpoints, endpoint, user_sessions,
                 issued, req, mix, shutdown>>

KeySessions == {"s1", "s2"}
\* the model lists and counts of SelectKeys requests
SelectModelLists == {<<"m1">>, <<"m2", "m1">>, <<"m1", "m1">>, <<"m3">>}
SelectCounts == 0..2
\* the stores as a call may find them
SelectFaults ==
    {[stored |-> Keys \ missing, vault_ok |-> v, pool_ok |-> p, stats_ok |-> c] :
        missing \in {{}, {"k2"}}, v \in BOOLEAN, p \in BOOLEAN, c \in BOOLEAN}

\* SelectKeysForSession: count_per_model or 1; select_keys_for_session
\* returns a list whatever happens, which is sent as a success
SelectKeysReply(models, count_per_model, faults) ==
    [success |-> TRUE, error |-> "",
     keys |-> select_keys_for_session(
                 models, IF count_per_model = 0 THEN 1 ELSE count_per_model, faults)]

\* the keys that get the weight record of the session: the ones
\* _intelligent_key_selection picked, with or without a secret
RECURSIVE WeightedKeys(_, _, _)
WeightedKeys(models, count, faults) ==
    IF models = <<>> THEN {}
    ELSE Range(SelectedForModel(Head(models), count, faults))
            \cup WeightedKeys(Tail(models), count, faults)

\* set_key_weight(session_id, key_id, 100.0) for each of the keys
set_key_weight(store, session_id, key_ids) ==
    [x \in DOMAIN store \cup {<<session_id, k>> : k \in key_ids} |->
        IF x \in {<<session_id, k>> : k \in key_ids}
        THEN [val |-> 100, exp |-> now + WeightTTL] ELSE store[x]]

SelectKeysForSession(session_id, models, count_per_model, faults) ==
    /\ session_key_weight' =
          set_key_weight(session_key_weight, session_id,
                         WeightedKeys(models,
                                      IF count_per_model = 0 THEN 1 ELSE count_per_model,
                                      faults))
    /\ UNCHANGED <<backendVars, key_usage_hour, key_usage_ttl, key_usage_total,
                   key_pool, track, reload, ingested, tracked>>

\* get_active_sessions: the session ids of the keys session_key_weight:*
get_active_sessions(store) == {x[1] : x \in DOMAIN store}

\* set_key_weight(session_id, key_id, 0.0) for the sessions given
WeightZero(store, session_ids, key_id) ==
    [x \in DOMAIN store \cup {<<session_id, key_id>> : session_id \in session_ids} |->
        IF x[2] = key_id /\ x[1] \in session_ids
        THEN [val |-> 0, exp |-> now + WeightTTL] ELSE store[x]]

disable_key_for_session(session_id, key_id) ==
    /\ session_key_weight' = WeightZero(session_key_weight, {session_id}, key_id)
    /\ UNCHANGED <<backendVars, key_usage_hour, key_usage_ttl, key_usage_total,
                   key_pool, track, reload, ingested, tracked>>

\* weight 0 for the key in every session that has a weight record
disable_key_globally(key_id) ==
    /\ session_key_weight' =
          WeightZero(session_key_weight, get_active_sessions(session_key_weight), key_id)
    /\ UNCHANGED <<backendVars, key_usage_hour, key_usage_ttl, key_usage_total,
                   key_pool, track, reload, ingested, tracked>>

\* the TrackUsage calls, their keys and token amounts
TrackCalls == 1..MaxTrackCalls
TrackedKeys == {"k1", "k2"}
TokenAmounts == {600, 4500}
\* at: the time at which the call returned
TrackIdle == [pc |-> "idle", key_id |-> "", tokens_used |-> 0, at |-> -1]

\* INCRBY: one atomic step of the counter store
SetTo(counter, key_id, amount) == [counter EXCEPT ![key_id] = amount]
IncrBy(counter, key_id, amount) == [counter EXCEPT ![key_id] = @ + amount]

\* track_key_usage, INCRBY key_usage_hour:<key_id>; the calls are numbered
\* in the order of their arrival
track_key_usage(c, key_id, tokens_used) ==
    /\ track[c].pc = "idle"
    /\ \A b \in 1..(c - 1) : track[b].pc # "idle"
    /\ track' = [track EXCEPT ![c] = [pc |-> "hour_counted", key_id |-> key_id,
                                      tokens_used |-> tokens_used, at |-> -1]]
    /\ key_usage_hour' = IncrBy(key_usage_hour, key_id, tokens_used)
    /\ UNCHANGED <<backendVars, key_usage_ttl, key_usage_total, key_pool,
                   session_key_weight, reload, ingested, tracked>>

\* track_key_usage, EXPIRE key_usage_hour:<key_id> 3600
track_key_usage_expire(c) ==
    /\ track[c].pc = "hour_counted"
    /\ track' = [track EXCEPT ![c].pc = "hour_ttl"]
    /\ key_usage_ttl' = [key_usage_ttl EXCEPT ![track[c].key_id] =
            IF key_usage_hour[track[c].key_id] = 0 /\ @ = -1 THEN -1
            ELSE now + UsageHourTTL]
    /\ UNCHANGED <<backendVars, key_usage_hour, key_usage_total, key_pool,
                   session_key_weight, reload, ingested, tracked>>

\* track_key_usage, INCRBY key_usage_total:<key_id>
track_key_usage_total(c) ==
    /\ track[c].pc = "hour_ttl"
    /\ track' = [track EXCEPT ![c].pc = "total_counted"]
    /\ key_usage_total' = IncrBy(key_usage_total, track[c].key_id, track[c].tokens_used)
    /\ UNCHANGED <<backendVars, key_usage_hour, key_usage_ttl, key_pool,
                   session_key_weight, reload, ingested, tracked>>

\* the rest of track_key_usage (the TTL of the total, key_last_used) and the
\* reply of TrackUsage, success
TrackUsage(c) ==
    /\ track[c].pc = "total_counted"
    /\ track' = [track EXCEPT ![c].pc = "returned", ![c].at = now]
    /\ tracked' = [tracked EXCEPT ![track[c].key_id] = @ + track[c].tokens_used]
    /\ UNCHANGED <<backendVars, key_usage_hour, key_usage_ttl, key_usage_total,
                   key_pool, session_key_weight, reload, ingested>>

\* the next store call of track_key_usage raises: both except clauses
\* re-raise and TrackUsage replies success = False; nothing is undone
TrackUsage_error(c) ==
    /\ track[c].pc \in {"hour_counted", "hour_ttl", "total_counted"}
    /\ track' = [track EXCEPT ![c].pc = "failed"]
    /\ UNCHANGED <<backendVars, key_usage_hour, key_usage_ttl, key_usage_total,
                   key_pool, session_key_weight, reload, ingested, tracked>>

\* the key files of ReloadKeys: the model of each row, one key per row
ReloadFiles == {<<"m1">>, <<"m2", "m1">>}
ReloadIdle == [pc |-> "idle", key_data |-> <<>>, created |-> [m \in Models |-> <<>>]]

\* _parse_csv_keys / _parse_yaml_keys: a new uuid4 key id per row, collected
\* per (provider, model)
ParsedKeys(file, first) ==
    [m \in Models |->
        LET rows == SelectSeq([i \in DOMAIN file |-> i], LAMBDA i : file[i] = m)
        IN  [j \in DOMAIN rows |-> UuidKeys[first + rows[j]]]]

\* the (provider, model) entries of key_data, in the order of their first row
RECURSIVE PoolOrder(_)
PoolOrder(file) ==
    IF file = <<>> THEN <<>>
    ELSE <<Head(file)>> \o SelectSeq(PoolOrder(Tail(file)), LAMBDA m : m # Head(file))

\* ingest_keys_from_file up to _store_keys_and_update_pools: the file is
\* parsed and the secrets are written
ingest_keys_from_file(file) ==
    /\ reload.pc \in {"idle", "returned", "failed"}
    /\ ingested + Len(file) <= MaxIngested
    /\ reload' = [pc |-> "storing",
                  key_data |-> [i \in DOMAIN PoolOrder(file) |->
                                   [model |-> PoolOrder(file)[i], cleared |-> FALSE,
                                    key_ids |-> ParsedKeys(file, ingested)[PoolOrder(file)[i]]]],
                  created |-> ParsedKeys(file, ingested)]
    /\ ingested' = ingested + Len(file)
    /\ UNCHANGED <<backendVars, key_usage_hour, key_usage_ttl, key_usage_total,
                   key_pool, session_key_weight, track, tracked>>

\* clear_key_pool: DEL keys:<provider>:<model>
ClearKeyPoolKept(pools, model) == pools
clear_key_pool(pools, model) == [pools EXCEPT ![model] = <<>>]

\* add_key_to_pool: SADD keys:<provider>:<model> key_id
add_key_to_pool(pools, model, key_id) ==
    IF key_id \in Range(pools[model]) THEN pools
    ELSE [pools EXCEPT ![model] = Append(@, key_id)]

\* _store_keys_and_update_pools, the next store call: the pool of the first
\* entry left is cleared, then its keys are added one by one
_store_keys_and_update_pools ==
    /\ reload.pc = "storing"
    /\ reload.key_data # <<>>
    /\ LET entry == Head(reload.key_data)
       IN  IF ~entry.cleared
           THEN /\ key_pool' = clear_key_pool(key_pool, entry.model)
                /\ reload' = [reload EXCEPT !.key_data[1].cleared = TRUE]
           ELSE /\ key_pool' = add_key_to_pool(key_pool, entry.model, Head(entry.key_ids))
                /\ reload' = [reload EXCEPT !.key_data =
                        IF Len(entry.key_ids) = 1 THEN Tail(reload.key_data)
                        ELSE [reload.key_data EXCEPT ![1].key_ids = Tail(entry.key_ids)]]
    /\ UNCHANGED <<backendVars, key_usage_hour, key_usage_ttl, key_usage_total,
                   session_key_weight, track, ingested, tracked>>

\* ReloadKeys replies success
ReloadKeys ==
    /\ reload.pc = "storing"
    /\ reload.key_data = <<>>
    /\ reload' = [reload EXCEPT !.pc = "returned"]
    /\ UNCHANGED <<backendVars, key_usage_hour, key_usage_ttl, key_usage_total,
                   key_pool, session_key_weight, track, ingested, tracked>>

\* the next store call of _store_keys_and_update_pools raises: ReloadKeys
\* replies success = False; nothing is undone
ReloadKeys_error ==
    /\ reload.pc = "storing"
    /\ reload.key_data # <<>>
    /\ reload' = [reload EXCEPT !.pc = "failed"]
    /\ UNCHANGED <<backendVars, key_usage_hour, key_usage_ttl, key_usage_total,
                   key_pool, session_key_weight, track, ingested, tracked>>

(***************************************************************************)
(* The liveness check in front of the session-scoped operations of the web *)
(* API, as functions of the stores it reads.  A reply is the HTTP status   *)
(* and the suspicious_activity records the check stores.                   *)
(***************************************************************************)
NoUser == 0
ClientAddresses == {"198.51.100.7"}

\* SISMEMBER user_sessions:<user_id>
_was_user_session(history, user_id, session_id) ==
    user_id \in DOMAIN history /\ session_id \in history[user_id]

check_session_status(store, history, session_id, user_id) ==
    IF HasSession(store, session_id) THEN "active"
    ELSE IF _was_user_session(history, user_id, session_id) THEN "expired"
    ELSE "invalid"

\* the record _log_suspicious_activity stores under suspicious_activity:*
_log_suspicious_activity(user_id, session_id, ip_address) ==
    [user_id |-> user_id, session_id |-> session_id, ip_address |-> ip_address,
     activity |-> "invalid_session_access"]

\* the check of the /session routes: no record, 410
_check_session_or_raise(store, session_id) ==
    IF HasSession(store, session_id)
    THEN [status |-> "200", logged |-> {}]
    ELSE [status |-> "410 session_expired", logged |-> {}]

\* the check of /generate: the history is asked only when the request
\* carries a user id
_validate_session(store, history, session_id, user_id, client_ip) ==
    IF HasSession(store, session_id) THEN [status |-> "200", logged |-> {}]
    ELSE IF user_id = NoUser THEN [status |-> "410 session_expired", logged |-> {}]
    ELSE IF check_session_status(store, history, session_id, user_id) = "expired"
    THEN [status |-> "410 session_expired", logged |-> {}]
    ELSE [status |-> "404 session not found",
          logged |-> {_log_suspicious_activity(user_id, session_id, client_ip)}]

SessionOperations == {"get_session_endpoints", "choose_session_endpoint",
                      "update_session_models", "get_session_info",
                      "connect_random_endpoint", "generate"}

\* the answer of a session-scoped operation to a request for session_id
SessionCheck(operation, session_id, user_id, client_ip) ==
    IF operation = "generate"
    THEN _validate_session(session_state, user_sessions, session_id, user_id, client_ip)
    ELSE _check_session_or_raise(session_state, session_id)

(***************************************************************************)
(* A direct stateless query, one action per stretch between the awaited    *)
(* key-server call and the awaited provider call, so that the steps of a   *)
(* ReloadKeys can run in between.                                          *)
(***************************************************************************)
\* route_query without an endpoint id, up to the call of the key server
route_query(r, user_id, models) ==
    /\ req[r].pc = "idle"
    /\ models # <<>>
    /\ LET temp_session_id == <<"temp", user_id, now>>
       IN  req' = [req EXCEPT ![r] =
              [IdleReq EXCEPT !.pc = "auto_started", !.session_id = temp_session_id,
                              !.stateless = TRUE,
                              !.after_reload = (reload.pc = "returned"),
                              !.snapshot = [EmptySessionState(temp_session_id, user_id)
                                              EXCEPT !.selected_models = models]]]
    /\ UNCHANGED <<now, session_state, session_endpoints, endpoint, user_sessions,
                   key_usage_hour, keyVars, issued, mix, shutdown>>

\* _route_with_auto_selection from the reply of the key server to the stored
\* endpoint record; no keys: the exception becomes the failure result
_route_with_auto_selection_select(r) ==
    /\ req[r].pc = "auto_started"
    /\ LET selected_keys == KeyClientReply(req[r].snapshot.selected_models,
                                           AutoCountPerModel, TRUE)
       IN  IF selected_keys = <<>>
           THEN /\ req' = [req EXCEPT ![r] =
                      [IdleReq EXCEPT !.pc = "failed", !.result = "route_failed"]]
                /\ UNCHANGED endpoint
           ELSE \E i \in DOMAIN selected_keys :
                  LET chosen_key == selected_keys[i]
                      endpoint_id == generate_endpoint_id(chosen_key.model,
                                        chosen_key.key_id, req[r].session_id, now)
                  IN  /\ endpoint' = Setex(endpoint, endpoint_id, StatelessTTL,
                                        [id |-> endpoint_id, model |-> chosen_key.model,
                                         api_key |-> chosen_key.api_key,
                                         created_at |-> req[r].session_id])
                      /\ req' = [req EXCEPT ![r].pc = "auto_selected",
                                            ![r].endpoint_id = endpoint_id]
    /\ UNCHANGED <<now, session_state, session_endpoints, user_sessions,
                   key_usage_hour, keyVars, issued, mix, shutdown>>

\* _route_with_auto_selection, create_endpoint and _send_message with the
\* secret of the reply
_route_with_auto_selection_send(r, driver_ok) ==
    /\ req[r].pc = "auto_selected"
    /\ req' = [req EXCEPT ![r] =
          IF driver_ok
          THEN [IdleReq EXCEPT !.pc = "answered", !.dispatched = TRUE]
          ELSE [IdleReq EXCEPT !.pc = "failed", !.result = "route_failed",
                               !.dispatched = TRUE]]
    /\ UNCHANGED <<now, session_state, session_endpoints, endpoint, user_sessions,
                   key_usage_hour, keyVars, issued, mix, shutdown>>

(***************************************************************************)
(* Initial state and the specification of the session manager.             *)
(***************************************************************************)
EmptyStore == [x \in {} |-> 0]

Init ==
    /\ now = 0
    /\ session_state = EmptyStore
    /\ session_endpoints = EmptyStore
    /\ endpoint = EmptyStore
    /\ user_sessions = [u \in Users |-> {}]
    /\ key_usage_hour = [k \in Keys |-> 0]
    /\ key_usage_ttl = [k \in Keys |-> -1]
    /\ key_usage_total = [k \in Keys |-> 0]
    /\ key_pool = [m \in Models |-> KeyPool(m)]
    /\ session_key_weight = EmptyStore
    /\ track = [c \in TrackCalls |-> TrackIdle]
    /\ reload = ReloadIdle
    /\ ingested = 0
    /\ tracked = [k \in Keys |-> 0]
    /\ issued = 0
    /\ req = [r \in ConcurrentReqs |-> IdleReq]
    /\ mix = MixIdle
    /\ shutdown = FALSE

Next ==
    \/ \E u \in Users : initialize_session(u)
    \/ \E s \in UuidSessions, ms \in ModelLists, ok \in BOOLEAN :
          update_session_models(s, ms, ok)
    \/ \E s \in UuidSessions, e \in DOMAIN endpoint \cup {NoEndpoint} :
          choose_session_endpoint(s, e)
    \/ \E s \in UuidSessions : end_session(s)
    \/ \E u \in Users, ms \in DirectModelLists, ok \in BOOLEAN :
          _route_with_auto_selection(u, ms, ok)
    \/ \E r \in Reqs, s \in UuidSessions, stateless \in BOOLEAN :
          generate_validate(r, s, stateless)
    \/ \E r \in Reqs, ok \in BOOLEAN : generate_route(r, ok)
    \/ \E r \in Reqs : complete_begin(r)
    \/ \E r \in Reqs : complete_invalidate(r)
    \/ \E r \in Reqs, ok \in BOOLEAN : complete_regenerate(r, ok)
    \/ \E r \in Reqs : generate_respond(r)
    \/ Tick

Spec == Init /\ [][Next]_vars

(***************************************************************************)
(* The specification of the router's temporal mixing.                       *)
(***************************************************************************)
NextMix ==
    \/ \E decoy \in BOOLEAN, is_stateless \in BOOLEAN, count \in 1..MaxDecoys :
          _process_query_core(decoy, is_stateless, count)
    \/ \E k \in MixKeys, streaming \in BOOLEAN : _send_message(k, streaming)
    \/ \E k \in MixKeys, n \in 1..MaxDecoys, streaming \in BOOLEAN :
          \E q \in Shuffles(n), constructed \in [1..(n + 1) -> BOOLEAN] :
              _send_with_temporal_mixing(k, n, streaming, q, constructed)
    \/ \E outcome \in {"ok", "raise"} : _send_regular_message(outcome)
    \/ \E i \in 1..(MaxDecoys + 1), outcome \in {"ok", "raise"} :
          _execute_decoy_query(i, outcome)
    \/ route_query_return
    \/ route_query_error
    \/ client_cancel
    \/ get_query_router
    \/ older_decoy_done
    \/ lifespan

SpecMix == Init /\ [][NextMix]_vars

\* the event loop resumes a dispatcher whose awaited task is done; nothing
\* makes a provider answer a request, real or decoy
SpecMixLive == SpecMix /\ WF_vars(route_query_return)

(***************************************************************************)
(* The specification of the key server.                                    *)
(***************************************************************************)
\* the SelectKeys calls that are made: what the invariants say of a reply
\* they say of every request of SelectModelLists, SelectCounts, SelectFaults
SelectCalls ==
    \E sid \in KeySessions, ms \in {<<"m1">>, <<"m2", "m1">>}, n \in 1..2,
       f \in {NoFaults, [NoFaults EXCEPT !.stats_ok = FALSE]} :
          SelectKeysForSession(sid, ms, n, f)

NextKeys ==
    \/ SelectCalls
    \/ \E file \in ReloadFiles : ingest_keys_from_file(file)
    \/ _store_keys_and_update_pools
    \/ ReloadKeys
    \/ ReloadKeys_error
    \/ Tick

SpecKeys == Init /\ [][NextKeys]_vars

(***************************************************************************)
(* The specification of the key server's usage counters.                   *)
(***************************************************************************)
NextUsage ==
    \/ \E n \in 1..2, f \in {NoFaults, [NoFaults EXCEPT !.stats_ok = FALSE]} :
          SelectKeysForSession("s1", <<"m1">>, n, f)
    \/ \E c \in TrackCalls, k \in TrackedKeys, t \in TokenAmounts :
          track_key_usage(c, k, t)
    \/ \E c \in TrackCalls : track_key_usage_expire(c)
    \/ \E c \in TrackCalls : track_key_usage_total(c)
    \/ \E c \in TrackCalls : TrackUsage(c)
    \/ \E c \in TrackCalls : TrackUsage_error(c)
    \/ Tick

SpecUsage == Init /\ [][NextUsage]_vars

(***************************************************************************)
(* The specification of the session-to-key weights of the key server.      *)
(***************************************************************************)
NextWeights ==
    \/ \E sid \in KeySessions, ms \in {<<"m1">>, <<"m2", "m1">>}, n \in 1..2 :
          SelectKeysForSession(sid, ms, n, NoFaults)
    \/ \E sid \in KeySessions, k \in TrackedKeys : disable_key_for_session(sid, k)
    \/ \E k \in TrackedKeys : disable_key_globally(k)
    \/ Tick

SpecWeights == Init /\ [][NextWeights]_vars

(***************************************************************************)
(* The specification of two /generate requests on one session, with        *)
(* UpdateModels calls beside them.                                         *)
(***************************************************************************)
NextConcurrent ==
    \/ \E u \in Users : initialize_session(u)
    \/ \E s \in UuidSessions, ms \in {<<"m1">>, <<"m1", "m2">>} :
          update_session_models(s, ms, TRUE)
    \/ \E s \in UuidSessions : choose_session_endpoint(s, NoEndpoint)
    \/ \E r \in ConcurrentReqs, s \in UuidSessions : generate_validate(r, s, TRUE)
    \/ \E r \in ConcurrentReqs : generate_route(r, TRUE)
    \/ \E r \in ConcurrentReqs : complete_begin(r)
    \/ \E r \in ConcurrentReqs : complete_invalidate(r)
    \/ \E r \in ConcurrentReqs : complete_regenerate(r, TRUE)
    \/ \E r \in ConcurrentReqs : generate_respond(r)

SpecConcurrent == Init /\ [][NextConcurrent]_vars

(***************************************************************************)
(* The specification of a ReloadKeys that runs beside sessions and direct  *)
(* queries.                                                                *)
(***************************************************************************)
NextReload ==
    \/ \E u \in Users : initialize_session(u)
    \/ \E s \in UuidSessions : update_session_models(s, <<"m1">>, TRUE)
    \/ \E s \in UuidSessions : choose_session_endpoint(s, NoEndpoint)
    \/ \E r \in Reqs, s \in UuidSessions : generate_validate(r, s, FALSE)
    \/ \E r \in Reqs, ok \in BOOLEAN : generate_route(r, ok)
    \/ \E r \in Reqs, u \in Users : route_query(r, u, <<"m1">>)
    \/ \E r \in Reqs : _route_with_auto_selection_select(r)
    \/ \E r \in Reqs, ok \in BOOLEAN : _route_with_auto_selection_send(r, ok)
    \/ \E r \in Reqs : generate_respond(r)
    \/ \E file \in ReloadFiles : ingest_keys_from_file(file)
    \/ _store_keys_and_update_pools
    \/ ReloadKeys
    \/ ReloadKeys_error
    \/ Tick

SpecReload == Init /\ [][NextReload]_vars

(***************************************************************************)
(* Properties of the session manager and of single-turn completion.        *)
(***************************************************************************)
Quiescent == \A r \in Reqs : req[r].pc = "idle"

\* the session an endpoint record names as its owner: the session_id field
\* of a session endpoint, the temporary session of a direct request
OwnerOf(endpoint_data) ==
    IF "session_id" \in DOMAIN endpoint_data
    THEN endpoint_data.session_id ELSE endpoint_data.created_at

ListedIds(session_id) ==
    {e.id : e \in Range(get_session_endpoints(session_endpoints, session_id))}

\* C1: when single-turn completion of a stateless dispatch finishes, every
\* endpoint record of the session still in storage belongs to the freshly
\* generated candidate list: the record bound before the dispatch and the
\* records of all earlier candidate lists are gone (unless regenerated
\* under the same id within the same clock tick).
C1_StaleRecordsGone ==
    [][\A r \in Reqs :
          (req[r].pc \in {"completing", "cleared"} /\ req'[r].pc = "completed")
          => \A id \in DOMAIN endpoint' :
                OwnerOf(endpoint'[id].val) = req[r].session_id
                => id \in {e.id : e \in Range(get_session_endpoints(
                                        session_endpoints', req[r].session_id))}]_vars

\* C2: between requests, the endpoint id a session is bound to is empty or
\* names an endpoint record in storage whose owner is that session.
C2_BoundEndpointExists ==
    Quiescent =>
        \A s \in DOMAIN session_state :
            LET id == session_state[s].val.endpoint_id
            IN  \/ id = NoEndpoint
                \/ /\ id \in DOMAIN endpoint
                   /\ OwnerOf(endpoint[id].val) = s

\* C3: between requests, an endpoint record is in storage exactly if its
\* owning session exists and lists it or is bound to it.
C3_RecordIffUsable ==
    Quiescent =>
        /\ \A id \in DOMAIN endpoint :
              LET s == OwnerOf(endpoint[id].val)
              IN  /\ HasSession(session_state, s)
                  /\ \/ id \in ListedIds(s)
                     \/ session_state[s].val.endpoint_id = id
        /\ \A s \in DOMAIN session_state :
              (ListedIds(s) \cup ({session_state[s].val.endpoint_id} \ {NoEndpoint}))
                 \subseteq DOMAIN endpoint

\* a step that finishes the single-turn completion of request r
CompletionEnds(r) ==
    req[r].pc \in {"completing", "cleared"} /\ req'[r].pc = "completed"

\* after the step: the session of r is bound to an entry of its candidate list
ReboundToFreshList(r) ==
    LET s == req[r].session_id
        fresh == get_session_endpoints(session_endpoints', s)
    IN  /\ HasSession(session_state', s)
        /\ fresh # <<>>
        /\ session_state'[s].val.endpoint_id \in {e.id : e \in Range(fresh)}

\* after the step: the session of r has no binding
LeftUnbound(r) ==
    LET s == req[r].session_id
    IN  /\ HasSession(session_state', s)
        /\ session_state'[s].val.endpoint_id = NoEndpoint
        /\ session_state'[s].val.current_model = ""

C12_RotatesToFreshKey ==
    [][\A r \in Reqs :
          (CompletionEnds(r) /\ ReboundToFreshList(r)) =>
             LET used == req[r].endpoint_id
                 next == session_state'[req[r].session_id].val.endpoint_id
             IN  (next.model = used.model /\ Len(key_pool[used.model]) > 1)
                    => next.key_id # used.key_id]_vars

\* C14: a route call that names an endpoint id whose record is missing from
\* storage fails with endpoint-expired and contacts no provider; the error
\* is not turned into the generic failure result and the request is not
\* answered.
C14_MissingRecordIsExpired ==
    [][\A r \in Reqs :
          (/\ req[r].pc = "validated"
           /\ req'[r].pc # "validated"
           /\ req[r].endpoint_id \notin DOMAIN endpoint)
          => /\ req'[r].pc = "failed"
             /\ req'[r].result = "endpoint_expired"
             /\ ~req'[r].dispatched]_vars

C14_Witness ==
    \E r \in Reqs :
        /\ req[r].pc = "failed"
        /\ req[r].result = "endpoint_expired"
        /\ \E s \in DOMAIN session_state :
              /\ session_state[s].val.endpoint_id # NoEndpoint
              /\ session_state[s].val.endpoint_id \notin DOMAIN endpoint

(***************************************************************************)
(* Properties of the key server.  What is said of a SelectKeys reply is    *)
(* said, in every state, of the reply to every request.                    *)
(***************************************************************************)
\* the stores all answer; the secret store may lack the secret of a key
StoresAnswer == {f \in SelectFaults : f.vault_ok /\ f.pool_ok /\ f.stats_ok}

\* the key ids of a reply that belong to model m
ReplyKeyIds(reply, m) ==
    {reply.keys[i].key_id : i \in {j \in DOMAIN reply.keys : reply.keys[j].model = m}}

\* C15: for each model named in a SelectKeys request the reply holds exactly
\* min(count_per_model, k) distinct keys of its pool, k being the number of
\* keys of the pool whose secret can be retrieved, and no key record occurs
\* twice in a reply.
C15_ExactlyMinCountKeys ==
    \A ms \in SelectModelLists, n \in 1..2, f \in StoresAnswer :
        LET reply == SelectKeysReply(ms, n, f)
        IN  /\ \A m \in Range(ms) :
                  /\ ReplyKeyIds(reply, m) \subseteq Range(key_pool[m])
                  /\ Cardinality(ReplyKeyIds(reply, m)) =
                        Min(n, Cardinality(Range(key_pool[m]) \cap f.stored))
            /\ \A i, j \in DOMAIN reply.keys :
                  reply.keys[i].key_id = reply.keys[j].key_id => i = j

\* C16: SelectKeys fails with no-keys whenever the pool of a requested model
\* is empty, and a successful reply holds fewer keys than requested for a
\* model only when the pools are non-empty and that pool holds fewer keys
\* than requested.
C16_EmptyPoolFailsNoKeys ==
    \A ms \in SelectModelLists, n \in 1..2 :
        LET reply == SelectKeysReply(ms, n, NoFaults)
        IN  /\ (\E m \in Range(ms) : key_pool[m] = <<>>)
                  => (~reply.success /\ reply.error = "no-keys")
            /\ \A m \in Range(ms) :
                  (reply.success /\ Cardinality(ReplyKeyIds(reply, m)) < n)
                     => /\ \A x \in Range(ms) : key_pool[x] # <<>>
                        /\ Len(key_pool[m]) < n

\* C17: when the secret store or the counter store fails during a SelectKeys
\* call for models with keys, the reply is a failure with unavailable; it is
\* not a success, with or without keys.
C17_StoreFailureIsUnavailable ==
    \A ms \in SelectModelLists, n \in 1..2, f \in SelectFaults :
        (/\ \A m \in Range(ms) : key_pool[m] # <<>>
         /\ ~(f.vault_ok /\ f.pool_ok /\ f.stats_ok))
        => LET reply == SelectKeysReply(ms, n, f)
           IN  ~reply.success /\ reply.error = "unavailable"

\* the tokens of the TrackUsage calls for key k whose pc is in pcs
RECURSIVE TokensOfCalls(_, _, _)
TokensOfCalls(c, k, pcs) ==
    IF c = 0 THEN 0
    ELSE TokensOfCalls(c - 1, k, pcs)
            + (IF track[c].key_id = k /\ track[c].pc \in pcs
               THEN track[c].tokens_used ELSE 0)

C19_CountersMoveTogether ==
    now < UsageHourTTL => \A k \in Keys : key_usage_hour[k] = key_usage_total[k]

\* C20: after a ReloadKeys has returned, the reply to every SelectKeys
\* request holds, for each model that occurs in the file, only keys created
\* by that reload.
C20_OnlyReloadedKeys ==
    reload.pc = "returned" =>
        \A ms \in SelectModelLists, n \in SelectCounts, f \in SelectFaults :
            LET reply == SelectKeysReply(ms, n, f)
            IN  \A i \in DOMAIN reply.keys :
                   reload.created[reply.keys[i].model] # <<>>
                      => reply.keys[i].key_id \in Range(reload.created[reply.keys[i].model])

C20_Witness ==
    /\ reload.pc = "returned"
    /\ reload.created["m1"] # <<>>
    /\ reload.created["m2"] # <<>>
    /\ \E sid \in KeySessions :
          /\ <<sid, reload.created["m1"][1]>> \in DOMAIN session_key_weight
          /\ <<sid, "k2">> \in DOMAIN session_key_weight

\* the binding fields of a session record
Binding(state) == <<state.current_model, state.endpoint_id, state.api_key_hash>>

BoundModelRemoved(state, models) ==
    state.current_model # "" /\ state.current_model \notin Range(models)

\* what UpdateModels does to the binding, and what it reports
BindingCleared(s, models, rpc_ok) ==
    LET old  == session_state[s].val
        keys == KeyClientReply(models, SessionCountPerModel, rpc_ok)
        new  == AfterSelection(WithNewModels(old, models), keys)
    IN  /\ Binding(new) = <<"", NoEndpoint, NoHash>>
        /\ needs_disconnection(old, models, keys)

BindingKept(s, models, rpc_ok) ==
    LET old  == session_state[s].val
        keys == KeyClientReply(models, SessionCountPerModel, rpc_ok)
        new  == AfterSelection(WithNewModels(old, models), keys)
    IN  /\ Binding(new) = Binding(old)
        /\ ~needs_disconnection(old, models, keys)

BindingOf(e) == <<e.models_accessible, e.id, e.api_key_hash>>

\* a step of ChooseEndpoint on session s: the binding becomes another bound
\* value while the candidate list, the clock and the requests are as before
ChooseStep(s) ==
    /\ s \in DOMAIN session_state'
    /\ session_state'[s].val.endpoint_id # NoEndpoint
    /\ Binding(session_state'[s].val) # Binding(session_state[s].val)
    /\ UNCHANGED <<session_endpoints, req, now>>

C25_DeadSessionAnsweredByHistory ==
    \A operation \in SessionOperations, session_id \in UuidSessions,
       user_id \in Users, client_ip \in ClientAddresses :
        ~HasSession(session_state, session_id) =>
            LET reply == SessionCheck(operation, session_id, user_id, client_ip)
            IN  IF session_id \in user_sessions[user_id]
                THEN reply.status = "410 session_expired" /\ reply.logged = {}
                ELSE /\ reply.status = "404 session not found"
                     /\ \E record \in reply.logged : record.ip_address = client_ip

Secrets == {SecretOf(k) : k \in Keys}

\* a record that carries the plaintext secret of a key
HoldsSecret(record) ==
    "api_key" \in DOMAIN record /\ record.api_key \in Secrets

\* the records the web server keeps in its store
StoredRecords ==
    {endpoint[id].val : id \in DOMAIN endpoint}
    \cup {session_state[s].val : s \in DOMAIN session_state}

\* the entries of the candidate lists, which are sent to the client as they
\* are stored
ClientVisibleRecords ==
    UNION {Range(session_endpoints[s].val) : s \in DOMAIN session_endpoints}

\* C26: in every reachable state the plaintext api_key of a key is in no
\* client-visible response and in no stored record other than the entry of
\* the secret store, and no endpoint id was derived from it.
C26_SecretConfined ==
    /\ \A record \in StoredRecords : ~HoldsSecret(record)
    /\ \A record \in ClientVisibleRecords : ~HoldsSecret(record)
    /\ \A id \in DOMAIN endpoint : ~HoldsSecret(id)

\* C27: for the same model, key id and coarse timestamp the endpoint ids of
\* two different sessions differ, temporary sessions of stateless queries
\* included: an endpoint id that is in use for one session is never issued
\* to another one.
C27_EndpointIdsDifferAcrossSessions ==
    [][\A id \in DOMAIN endpoint \cap DOMAIN endpoint' :
          OwnerOf(endpoint'[id].val) = OwnerOf(endpoint[id].val)]_vars

\* C21: a ReloadKeys that runs while a stateless query for a model of its
\* file is in flight does not make the query fail: the query gets a key
\* from the key server although the reload is in progress.
C21_ReloadFailsNoQuery ==
    [][\A r \in Reqs :
          (/\ req[r].pc = "auto_started"
           /\ req'[r].pc # "auto_started"
           /\ reload.pc = "storing"
           /\ \E m \in Range(req[r].snapshot.selected_models) :
                 reload.created[m] # <<>>)
          => req'[r].pc = "auto_selected"]_vars

\* C22: a query that arrives after a ReloadKeys has returned is not
\* dispatched through a bound endpoint whose key is no longer in the pool
\* of its model.
C22_NoDispatchOnReplacedKey ==
    [][\A r \in Reqs :
          (/\ req[r].pc = "validated"
           /\ req[r].after_reload
           /\ reload.pc = "returned"
           /\ req'[r].dispatched)
          => req[r].endpoint_id.key_id \in Range(key_pool[req[r].endpoint_id.model])]_vars

\* pools and lower counter values the selection is compared on
ComparedPools == {key_pool["m1"], <<"k1", "k2", "k3">>, <<"k3", "k2", "k1">>}
LowerCounters == {0, 600, 999, 1000, 4500, 4999, 5000}

\* C29: for a fixed pool and otherwise unchanged counters, reducing the
\* hourly counter of one key never moves that key to a later position of
\* the sorted list, so a key that is selected is still selected after its
\* counter was reduced.
C29_LessUsedNeverLater ==
    \A pool \in ComparedPools, v \in LowerCounters :
      \A i \in DOMAIN pool :
        v < key_usage_hour[pool[i]] =>
           LET reduced == [key_usage_hour EXCEPT ![pool[i]] = v]
           IN  /\ SortedPositionOn(reduced, pool, i)
                     <= SortedPositionOn(key_usage_hour, pool, i)
               /\ \A count \in 1..Len(pool) :
                     pool[i] \in Range(SelectionOn(key_usage_hour, pool, count))
                        => pool[i] \in Range(SelectionOn(reduced, pool, count))

\* k1 is behind k2 in the pool and in the sorted list, and moves to the
\* front when its counter is reduced to that of k2
C29_Witness ==
    /\ key_pool["m1"] = <<"k2", "k1">>
    /\ key_usage_hour["k2"] = 600
    /\ key_usage_hour["k1"] = 4500
    /\ SelectionOn(key_usage_hour, key_pool["m1"], 1) = <<"k2">>
    /\ SelectionOn([key_usage_hour EXCEPT !["k1"] = 0], key_pool["m1"], 1) = <<"k1">>
    /\ SelectionOn([key_usage_hour EXCEPT !["k1"] = 600], key_pool["m1"], 1) = <<"k2">>

\* the tokens of the TrackUsage calls for key k that returned less than
\* one hour ago
RECURSIVE TokensOfLastHour(_, _)
TokensOfLastHour(c, k) ==
    IF c = 0 THEN 0
    ELSE TokensOfLastHour(c - 1, k)
            + (IF track[c].key_id = k /\ track[c].at + UsageHourTTL > now
               THEN track[c].tokens_used ELSE 0)

\* C32: the hourly counter of a key is a rolling one-hour total: with every
\* TrackUsage call returned, tokens of a call that returned one hour ago or
\* earlier do not
\* count toward it, even if other calls for the key were made in between.
C32_HourlyCounterIsRolling ==
    (\A c \in TrackCalls : track[c].pc \in {"idle", "returned"})
        => \A k \in Keys : key_usage_hour[k] <= TokensOfLastHour(MaxTrackCalls, k)

\* the key ids in lexicographic order, and the place of a key id in it
KeyIdsInOrder == <<"k1", "k2", "k3">> \o UuidKeys
KeyIdRank(key_id) == CHOOSE n \in DOMAIN KeyIdsInOrder : KeyIdsInOrder[n] = key_id

\* C33: key selection is deterministic given the pool and the counters, and
\* keys that tie on weight and hourly tokens are ordered by key id
\* lexicographically: of two tying keys of a selection the one with the
\* smaller key id comes first.
C33_TiesOrderedByKeyId ==
    \A model \in Models, count \in 1..SessionCountPerModel :
        LET selected == SelectedForModel(model, count, NoFaults)
        IN  \A i, j \in DOMAIN selected :
               (/\ i < j
                /\ key_usage_hour[selected[i]] = key_usage_hour[selected[j]])
               => KeyIdRank(selected[i]) < KeyIdRank(selected[j])

\* the weight record of key k for session sid lives and is 0
WeightIsZero(sid, k) ==
    /\ <<sid, k>> \in DOMAIN session_key_weight
    /\ session_key_weight[<<sid, k>>].val = 0

\* C34: a key whose weight for a session is 0 is in no reply to a SelectKeys
\* request of that session while the weight record lives; a key disabled
\* globally (weight 0 in every active session) is returned to no active
\* session.
C34_ZeroWeightNotSelected ==
    \A sid \in KeySessions, k \in Keys :
        WeightIsZero(sid, k) =>
            \A models \in SelectModelLists, count_per_model \in 1..2, m \in Models :
                k \notin ReplyKeyIds(SelectKeysReply(models, count_per_model, NoFaults), m)

\* C35: of two stateless requests that run on the same session, the
\* single-turn completion of one never makes the other, already validated
\* against the bound endpoint, fail with endpoint-expired.
C35_CompletionExpiresNoValidatedRequest ==
    [][\A r \in ConcurrentReqs :
          (req[r].pc = "validated" /\ req[r].stateless /\ req'[r].pc = "failed")
             => req'[r].result # "endpoint_expired"]_vars

\* C36: single-turn completion never overwrites the selected-models list of
\* a session: no step of a completion changes the stored list, so the list
\* written by an UpdateModels call that completed in between stays.
C36_CompletionKeepsModelList ==
    [][\A r \in ConcurrentReqs :
          (/\ req[r].pc \in {"completing", "cleared"}
           /\ req'[r].pc # req[r].pc
           /\ HasSession(session_state, req[r].session_id)
           /\ HasSession(session_state', req[r].session_id))
          => session_state'[req[r].session_id].val.selected_models
                = session_state[req[r].session_id].val.selected_models]_vars

\* C37: whenever no operation is in progress on a session, its bound
\* endpoint id is empty or the id of an entry of its current candidate
\* list, also after an UpdateModels call that keeps the bound model selected.
C37_BoundEndpointIsCandidate ==
    Quiescent =>
        \A s \in DOMAIN session_state :
            \/ session_state[s].val.endpoint_id = NoEndpoint
            \/ session_state[s].val.endpoint_id \in ListedIds(s)

(***************************************************************************)
(* Properties of temporal mixing.                                          *)
(***************************************************************************)
Positions == DOMAIN mix.query_tasks
RealPositions == {i \in Positions : mix.query_tasks[i].prompt = 0}
DecoyPositions == {i \in Positions : mix.query_tasks[i].prompt # 0}
Started == {i \in Positions : mix.query_tasks[i].request # NoRequest}
Dispatched == mix.pc \notin {"idle", "processed"} /\ mix.decoy_prompts > 0

\* one task per prompt, the real prompt and every decoy prompt exactly once
OneTaskPerPrompt ==
    /\ Cardinality(Positions) = mix.decoy_count + 1
    /\ \A p \in 0..mix.decoy_count :
          Cardinality({i \in Positions : mix.query_tasks[i].prompt = p}) = 1

\* the requests started run on pairwise distinct instances, none of them the
\* instance handed to the dispatch, all over its provider, model and secret
OwnInstances ==
    \A i \in Started :
        LET t == mix.query_tasks[i]
        IN  /\ t.request.uuid = t.instance.uuid
            /\ t.request.prompt = t.prompt
            /\ t.instance.uuid # mix.endpoint_instance.uuid
            /\ \A j \in Started \ {i} : mix.query_tasks[j].instance.uuid # t.instance.uuid
            /\ t.instance.provider = mix.endpoint_instance.provider
            /\ t.instance.model_tag = mix.endpoint_instance.model_tag
            /\ t.instance.api_key = mix.endpoint_instance.api_key

C5_SameMethod ==
    Dispatched =>
        \A i \in Started :
            mix.query_tasks[i].request.method =
                IF mix.streaming THEN "send_message" ELSE "send_message_non_streaming"

C5_Witness ==
    /\ mix.pc = "awaiting"
    /\ mix.streaming
    /\ Started = Positions
    /\ mix.decoy_count = 2

\* the response of a successful dispatch, written without the shuffle
ExpectedResponse(streaming, decoy_count) ==
    IF streaming
    THEN [type |-> "streaming", stream |-> <<"stream", 0>>, content |-> <<>>,
          temporal_mixing |-> [active |-> TRUE, total_queries |-> decoy_count + 1]]
    ELSE [type |-> "complete", content |-> <<"reply", 0>>,
          temporal_mixing |-> [active |-> TRUE, total_queries |-> decoy_count + 1]]

C7_RealErrorPropagates ==
    (mix.pc \in {"returned", "failed"} /\ \E i \in RealPositions : mix.query_tasks[i].error)
        => /\ mix.pc = "failed"
           /\ ~mix.result.success
           /\ mix.result.error # ""

C7_Witness ==
    /\ mix.pc = "failed"
    /\ \E i \in RealPositions : mix.query_tasks[i].error /\ i \in Started
    /\ \E i \in DecoyPositions : mix.query_tasks[i].state = "done" /\ ~mix.query_tasks[i].error

\* C8: when the real task did not fail, the dispatch succeeds with the real
\* response, whether or not a decoy hit a driver error or got no instance.
C8_DecoyFailureHarmless ==
    (/\ mix.pc \in {"returned", "failed"}
     /\ mix.decoy_prompts > 0
     /\ \A i \in RealPositions : ~mix.query_tasks[i].error)
        => /\ mix.pc = "returned"
           /\ mix.result.success
           /\ mix.result.response = ExpectedResponse(mix.streaming, mix.decoy_count)

C8_Witness ==
    /\ mix.pc = "returned"
    /\ \E i \in DecoyPositions : mix.query_tasks[i].instance = NoInstance
    /\ \E i \in DecoyPositions \cap Started : mix.query_tasks[i].error

\* C9: a cancellation of the request cancels the real task if it is still
\* pending and changes no decoy task; no decoy task is ever cancelled.
C9_CancelSparesDecoys ==
    [][/\ (mix.pc = "awaiting" /\ mix'.pc = "cancelled") =>
            \A i \in Positions :
                IF mix.query_tasks[i].prompt = 0
                THEN mix.query_tasks[i].state = "pending"
                        => mix'.query_tasks[i].state = "cancelled"
                ELSE mix'.query_tasks[i] = mix.query_tasks[i]
       /\ \A i \in DOMAIN mix'.query_tasks :
            mix'.query_tasks[i].prompt # 0 => mix'.query_tasks[i].state # "cancelled"]_vars

C9_Witness ==
    /\ mix.pc = "cancelled"
    /\ \E i \in RealPositions : mix.query_tasks[i].state = "cancelled"
    /\ \E i \in DecoyPositions : mix.query_tasks[i].state = "pending"
    /\ \E i \in DecoyPositions : mix.query_tasks[i].state = "done"

\* C13: a request with stateless = false gets no decoy prompt, whatever its
\* decoy flag: the router does a regular send, which starts exactly one
\* provider request, the real prompt on the endpoint instance, and the result
\* carries no temporal_mixing metadata.
C13_NoDecoysWhenStateful ==
    (mix.pc # "idle" /\ ~mix.is_stateless) =>
        /\ mix.decoy_prompts = 0
        /\ mix.pc # "processed" =>
              /\ Positions = {1}
              /\ Started = {1}
              /\ mix.query_tasks[1].request.prompt = 0
              /\ mix.query_tasks[1].request.uuid = mix.endpoint_instance.uuid
        /\ mix.pc = "returned" =>
              "temporal_mixing" \notin DOMAIN mix.result.response

C13_Witness ==
    /\ mix.pc = "returned"
    /\ mix.decoy
    /\ ~mix.is_stateless
    /\ Started = {1}

\* C10: once the process has shut down, no decoy task is pending, neither of
\* the current request nor of an earlier one.
C10_ShutdownCancelsDecoys ==
    shutdown => (PendingDecoys(mix) = {} /\ mix.older = 0)


\* every order of the indices 0..n
IndexOrders(n) ==
    {q \in [1..(n + 1) -> 0..n] : \A i, j \in 1..(n + 1) : q[i] = q[j] => i = j}

\* the sequences of draws after which the real query (index 0) is at pos
DrawsWithRealAt(n, pos) ==
    {d \in Draws(n + 1) : secure_shuffle(IndexRange(n), d)[pos] = 0}

\* C28: the position of the real query among the N+1 launched requests is
\* uniform over the N+1 positions: every permutation of the indices comes
\* from exactly one sequence of the shuffle's draws, so every position is
\* reached by the same number of sequences; a dispatch launches its tasks
\* in such an order.
C28_RealPositionUniform ==
    /\ \A n \in 1..MaxDecoys :
          /\ \A q \in IndexOrders(n) :
                Cardinality({d \in Draws(n + 1) :
                                secure_shuffle(IndexRange(n), d) = q}) = 1
          /\ \A pos \in 1..(n + 1) :
                Cardinality(DrawsWithRealAt(n, pos)) * (n + 1)
                    = Cardinality(Draws(n + 1))
    /\ mix.query_indices # <<>> =>
          mix.query_indices \in Shuffles(Len(mix.query_indices) - 1)

\* a dispatch with MaxDecoys decoys whose real query was launched last
C28_Witness ==
    /\ mix.pc \notin {"idle", "processed"}
    /\ Len(mix.query_indices) = MaxDecoys + 1
    /\ mix.query_indices[MaxDecoys + 1] = 0


\* the dispatcher of a mixed dispatch waits and its real task is done
RealTaskDone ==
    /\ Dispatched
    /\ mix.pc = "awaiting"
    /\ ~shutdown
    /\ \E i \in RealPositions : mix.query_tasks[i].state = "done"

\* C30: a temporal-mixing dispatch returns the real response as soon as the
\* real task has completed and awaits no decoy: once the real task is done
\* the return is enabled whatever the decoys do, and it happens (unless the
\* client cancels or the process shuts down first) although no decoy task is
\* ever required to end.
C30_ReturnsWithoutDecoys ==
    /\ [](RealTaskDone => ENABLED route_query_return)
    /\ RealTaskDone ~> (mix.pc \in {"returned", "cancelled"} \/ shutdown)

\* a dispatch that has returned while each of its MaxDecoys decoys is pending
C30_Witness ==
    /\ mix.pc = "returned"
    /\ mix.result.success
    /\ mix.decoy_prompts = MaxDecoys
    /\ Cardinality(DecoyPositions) = MaxDecoys
    /\ \A i \in DecoyPositions : mix.query_tasks[i].state = "pending"


\* C31: whatever the outcome of the real task (success, error, cancellation),
\* once a temporal-mixing dispatch is over the router's tracked set holds
\* exactly the launched decoy tasks that are still pending, and is empty
\* when all of them have finished.
C31_TrackedSetIsPendingDecoys ==
    (mix.pc \in {"returned", "failed", "cancelled"} /\ mix.decoy_prompts > 0)
        => mix.background_decoys = PendingDecoys(mix)


(***************************************************************************)
(* The two handlers that send a query through the bound endpoint of a      *)
(* session named by the request, as functions of the stores they read.     *)
(* A reply is the HTTP status and the endpoint the provider call goes      *)
(* through (NoEndpoint: no provider call through a bound endpoint).        *)
(***************************************************************************)
OtherUser == 456
RequestingUsers == Users \cup {OtherUser}

\* /generate of the web API: _validate_session, the check for a connected
\* endpoint, route_query with the endpoint id of the record
generate(session_id, user_id, client_ip, driver_ok) ==
    LET check == _validate_session(session_state, user_sessions, session_id,
                                   user_id, client_ip)
    IN  IF check.status # "200"
        THEN [status |-> check.status, dispatched_to |-> NoEndpoint]
        ELSE IF session_state[session_id].val.endpoint_id = NoEndpoint
        THEN [status |-> "400 no endpoint connected", dispatched_to |-> NoEndpoint]
        ELSE LET endpoint_id == session_state[session_id].val.endpoint_id
                 routed == _route_with_endpoint(endpoint, endpoint_id, driver_ok)
             IN  [status |-> IF routed.error = "" THEN "200" ELSE routed.error,
                  dispatched_to |-> IF routed.dispatched THEN endpoint_id
                                    ELSE NoEndpoint]

\* stateful_query of the direct API with a session id in the request:
\* _process_query_core reads the endpoint id from the record of that
\* session and hands it to route_query together with the user id of the
\* token; without a bound endpoint route_query selects one from the models
stateful_query(session_id, user_id, driver_ok) ==
    IF ~HasSession(session_state, session_id)
         \/ session_state[session_id].val.endpoint_id = NoEndpoint
    THEN [status |-> "auto_selection", dispatched_to |-> NoEndpoint]
    ELSE LET endpoint_id == session_state[session_id].val.endpoint_id
             routed == _route_with_endpoint(endpoint, endpoint_id, driver_ok)
         IN  [status |-> IF routed.error = "" THEN "200" ELSE routed.error,
              dispatched_to |-> IF routed.dispatched THEN endpoint_id
                                ELSE NoEndpoint]

\* the replies of both handlers to a request of user_id for session_id
QueryReplies(session_id, user_id) ==
    {generate(session_id, user_id, client_ip, driver_ok) :
        client_ip \in ClientAddresses, driver_ok \in BOOLEAN}
    \cup {stateful_query(session_id, user_id, driver_ok) : driver_ok \in BOOLEAN}

\* C38: a request that names a live session with a bound endpoint and
\* comes from a user other than the owner of the session is rejected and
\* no provider is contacted through the endpoint of the session.
C38_OnlyOwnerDispatches ==
    \A session_id \in UuidSessions, user_id \in RequestingUsers :
        (/\ HasSession(session_state, session_id)
         /\ session_state[session_id].val.endpoint_id # NoEndpoint
         /\ session_state[session_id].val.user_id # user_id)
        => \A reply \in QueryReplies(session_id, user_id) :
              reply.status # "200" /\ reply.dispatched_to = NoEndpoint


\* the status message, the second component of what update_session_models
\* returns; the function raises only when a store call raises
update_session_models_message(state, new_selected_models, selected_keys) ==
    IF needs_disconnection(state, new_selected_models, selected_keys)
         /\ selected_keys = <<>>
    THEN "No endpoints available for selected models. Session disconnected."
    ELSE IF needs_disconnection(state, new_selected_models, selected_keys)
    THEN "Current endpoint removed from selection. Session disconnected."
    ELSE "Session models updated."

\* the messages of an update that went through
UpdateMessages ==
    {"No endpoints available for selected models. Session disconnected.",
     "Current endpoint removed from selection. Session disconnected.",
     "Session models updated."}

\* C39: when the call of the key server made by UpdateModels fails, the
\* binding of the session, its candidate list and the candidate endpoint
\* records stay as they were, and the caller is told of the failure (here
\* for a bound session whose bound model stays selected).
C39_FailedAllocatorChangesNothing ==
    \A s \in UuidSessions, models \in ModelLists :
        (/\ HasSession(session_state, s)
         /\ session_state[s].val.endpoint_id # NoEndpoint
         /\ ~BoundModelRemoved(session_state[s].val, models))
        => LET old  == session_state[s].val
               keys == KeyClientReply(models, SessionCountPerModel, FALSE)
               new  == AfterSelection(WithNewModels(old, models), keys)
           IN  /\ Binding(new) = Binding(old)
               /\ get_session_endpoints(
                     StoreEndpointList(session_endpoints, s, keys), s)
                    = get_session_endpoints(session_endpoints, s)
               /\ StoreEndpointRecords(endpoint, s, keys) = endpoint
               /\ update_session_models_message(old, models, keys)
                    \notin UpdateMessages

=============================================================================
